---- MODULE Spec2Model ----
(***************************************************************************)
(* Request pacing (RateLimiter), the Gemini service entry points and the   *)
(* completion cache of src/gemini_integration.py.                          *)
(*                                                                         *)
(* Time is the integer number of seconds read by time.time().  Callers are *)
(* asyncio tasks of one event loop: code between two awaits is one atomic  *)
(* step, asyncio.Lock hands the lock to its waiters in FIFO order, and a   *)
(* task parked in asyncio.sleep(d) resumes no earlier than d seconds later.*)
(***************************************************************************)
EXTENDS Integers, Sequences, FiniteSets, TLC

\* ---------------------------------------------------------------- bounds
\* tasks; calls issued per specification; largest limit and cache size drawn
NumTasks == 2
MaxCalls == 5
ServiceCalls == 2
CacheCalls == 3
MaxRPM == 2
MaxCacheSize == 2
MaxAdds == 3
RecentFilled == 10

\* ------------------------------------------------------ program constants
Window == 60
ServiceRPM == 60
StaleAfter == 300
HistoryMax == 20
DefaultCacheMax == 100
RecentLimit == 10
RecentMax == 20

Tasks == 1..NumTasks
NoTask == 0
NoKey == ""
KeyOrder == <<"a", "b", "c">>
Keys == {KeyOrder[i] : i \in 1..Len(KeyOrder)}

\* Instants at which the models let events happen; a sleeper's wake-up time
\* is always added to them (see Tick).
LimiterInstants == {0, 30, 59, 60, 90, 120}
ServiceInstants == {0, 60}
CacheInstants == {0, 1, 2}

VARIABLES
    recent_files,           \* contents of recent_files.json
    recent_added,           \* the distinct paths added, latest first
    clock,                  \* time.time()
    limiter,                \* outcome of RateLimiter.__init__
    requests_per_minute,    \* RateLimiter.requests_per_minute
    request_times,          \* RateLimiter.request_times
    lock,                   \* task holding RateLimiter.lock, or NoTask
    lock_waiters,           \* FIFO queue of tasks parked in lock.acquire()
    tasks,                  \* per task: position and locals of its call
    ncalls,                 \* number of calls issued so far
    nkeys,                  \* number of distinct cache keys used so far
    admissions,             \* history: one record per returned wait_if_needed
    authenticated,          \* GeminiCLIService.authenticated
    conversation_history,   \* GeminiCLIService.conversation_history (roles)
    outbound,               \* history: one record per _batch_completion call
    completion_cache,       \* AIAssistant.completion_cache, in dict order
    cache_max_size          \* AIAssistant.cache_max_size

vars == <<recent_files, recent_added, clock, limiter, requests_per_minute,
          request_times, lock,
          lock_waiters, tasks, ncalls, nkeys, admissions, authenticated,
          conversation_history, outbound, completion_cache, cache_max_size>>

limiterVars == <<limiter, requests_per_minute>>
cacheVars == <<completion_cache, cache_max_size>>
recentVars == <<recent_files, recent_added>>

Range(s) == {s[i] : i \in 1..Len(s)}

\* AIResponse (dataclass): created_at is set when the object is built
AIResponse(content, finish_reason, created_at) ==
    [content |-> content, finish_reason |-> finish_reason,
     created_at |-> created_at]

NoResponse == AIResponse(0, "none", 0)

IdleFrame ==
    [pc |-> "idle", op |-> "none", id |-> 0, called |-> 0, now |-> 0,
     wake_at |-> 0, seen |-> 0, oldest |-> 0, queued |-> FALSE,
     stream |-> FALSE,
     key |-> NoKey, hit |-> FALSE, resp |-> NoResponse]

Resting == {"idle", "returned", "raised", "done"}

\* A frame for a new call of operation op by an idle task
NewFrame(op, stream, key) ==
    [IdleFrame EXCEPT !.op = op, !.id = ncalls + 1, !.called = clock,
                      !.stream = stream, !.key = key]

\* Tasks are interchangeable: a new call runs in the first task that is free
CanCall(t, max) ==
    /\ tasks[t].pc \in Resting
    /\ \A u \in 1..(t - 1) : tasks[u].pc \notin Resting
    /\ ncalls < max

\* -------------------------------------------------------------- RateLimiter

\* Purge that drops nothing
Purge_Nothing(times, n) == times

\* request_times = [t for t in request_times if now - t < 60]
Purge(times, n) == SelectSeq(times, LAMBDA req_time : n - req_time < Window)

\* min(self.request_times) of a non-empty list
SeqMin(s) == CHOOSE m \in Range(s) : \A x \in Range(s) : m <= x

\* wait_time = 60 - (now - oldest_request)
WaitTime(n, oldest_request) == Window - (n - oldest_request)

\* ------------------------------------------------- GeminiCLIService (part)

\* The caller's frame once wait_if_needed() has returned: the locals of the
\* call are gone
Returned(frame) ==
    [frame EXCEPT !.now = 0, !.wake_at = 0, !.seen = 0, !.oldest = 0,
                  !.queued = FALSE]

\* The frame of a finished call: what it was, and the response it returned
Done(frame, response, hit) ==
    [IdleFrame EXCEPT !.pc = "done", !.op = frame.op, !.key = frame.key,
                      !.hit = hit, !.resp = response]

\* _batch_completion starts: the request leaves for the external service
BatchStart(t, frame) ==
    /\ outbound' = Append(outbound, [id |-> frame.id, op |-> frame.op,
                                     at |-> clock])
    /\ tasks' = [tasks EXCEPT ![t] = [frame EXCEPT !.pc = "calling"]]

\* What the caller of wait_if_needed() does once the call has returned, up to
\* its next await
Proceed(t, frame) ==
    CASE frame.op = "wait_if_needed" ->
            /\ tasks' = [tasks EXCEPT ![t] =
                    [IdleFrame EXCEPT !.pc = "returned", !.op = frame.op]]
            /\ UNCHANGED <<outbound, conversation_history>>
      [] frame.op \in {"generate_completion", "get_code_completion"} ->
            IF frame.stream
            THEN \* awaiting the async generator of _stream_completion raises
                 \* TypeError, which generate_completion turns into an error
                 /\ tasks' = [tasks EXCEPT ![t] =
                        Done(frame, AIResponse(0, "error", clock), FALSE)]
                 /\ UNCHANGED <<outbound, conversation_history>>
            ELSE /\ BatchStart(t, frame)
                 /\ UNCHANGED conversation_history
      [] frame.op = "chat_completion" ->
            /\ conversation_history' = Append(conversation_history, "user")
            /\ BatchStart(t, frame)

\* ------------------------------------------- RateLimiter.wait_if_needed

\* Admit with the lock never released on the way out
Admit_KeepsLock(t, frame, times, waited) ==
    /\ request_times' = Append(times, frame.now)
    /\ lock' = t
    /\ admissions' = Append(admissions,
            [id |-> frame.id, called |-> frame.called,
             now |-> frame.now, at |-> clock, waited |-> waited,
             seen |-> frame.seen, oldest |-> frame.oldest,
             wake_at |-> frame.wake_at, queued |-> frame.queued])
    /\ Proceed(t, Returned(frame))

\* Admit recording the time of the return instead of the time read on entry
Admit_RecordsReturn(t, frame, times, waited) ==
    /\ request_times' = Append(times, clock)
    /\ lock' = NoTask
    /\ admissions' = Append(admissions,
            [id |-> frame.id, called |-> frame.called,
             now |-> frame.now, at |-> clock, waited |-> waited,
             seen |-> frame.seen, oldest |-> frame.oldest,
             wake_at |-> frame.wake_at, queued |-> frame.queued])
    /\ Proceed(t, Returned(frame))

\* Admit recording, for a call that slept, the wake-up time next to the
\* time read on entry
Admit_AppendsTwice(t, frame, times, waited) ==
    /\ request_times' = IF waited
                        THEN Append(Append(times, frame.now), clock)
                        ELSE Append(times, frame.now)
    /\ lock' = NoTask
    /\ admissions' = Append(admissions,
            [id |-> frame.id, called |-> frame.called,
             now |-> frame.now, at |-> clock, waited |-> waited,
             seen |-> frame.seen, oldest |-> frame.oldest,
             wake_at |-> frame.wake_at, queued |-> frame.queued])
    /\ Proceed(t, Returned(frame))

\* self.request_times.append(now); leaving "async with" releases the lock
Admit(t, frame, times, waited) ==
    /\ request_times' = Append(times, frame.now)
    /\ lock' = NoTask
    /\ admissions' = Append(admissions,
            [id |-> frame.id, called |-> frame.called,
             now |-> frame.now, at |-> clock, waited |-> waited,
             seen |-> frame.seen, oldest |-> frame.oldest,
             wake_at |-> frame.wake_at, queued |-> frame.queued])
    /\ Proceed(t, Returned(frame))

\* Decide with the capacity test off by one (> instead of >=)
Decide_OffByOne(kept, n, rpm) ==
    IF Len(kept) > rpm
    THEN IF kept = <<>>
         THEN "raise"
         ELSE IF WaitTime(n, SeqMin(kept)) > 0 THEN "sleep" ELSE "append"
    ELSE "append"

\* The decision taken on the purged list: "raise", "sleep" or "append"
Decide(kept, n, rpm) ==
    IF Len(kept) >= rpm
    THEN IF kept = <<>>
         THEN "raise"
         ELSE IF WaitTime(n, SeqMin(kept)) > 0 THEN "sleep" ELSE "append"
    ELSE "append"

\* wait_if_needed() from the moment the lock is held up to its first await
\* or its return
Critical(t, frame) ==
    LET n == clock
        kept == Purge(request_times, n)
        oldest_request == IF kept = <<>> THEN 0 ELSE SeqMin(kept)
        wait_time == WaitTime(n, oldest_request)
        entered == [frame EXCEPT !.now = n, !.seen = Len(kept),
                                 !.oldest = oldest_request]
        decision == Decide(kept, n, requests_per_minute)
    IN  CASE decision = "raise" ->
                \* min() of an empty list raises ValueError; the exception
                \* leaves "async with", which releases the lock
                /\ request_times' = kept
                /\ lock' = NoTask
                /\ tasks' = [tasks EXCEPT ![t] =
                    [IdleFrame EXCEPT !.pc = "raised", !.op = frame.op]]
                /\ UNCHANGED <<admissions, outbound, conversation_history>>
          [] decision = "sleep" ->
                /\ request_times' = kept
                /\ lock' = t
                /\ tasks' = [tasks EXCEPT ![t] =
                                [entered EXCEPT !.pc = "sleeping",
                                                !.wake_at = n + wait_time]]
                /\ UNCHANGED <<admissions, outbound, conversation_history>>
          [] decision = "append" ->
                Admit(t, entered, kept, FALSE)

\* EnterWaitIfNeeded without "async with self.lock": the section is entered
\* whoever holds the lock
EnterWaitIfNeeded_NoLock(t, frame) ==
    /\ UNCHANGED lock_waiters
    /\ Critical(t, frame)

\* await self.rate_limiter.wait_if_needed(): "async with self.lock" takes a
\* free lock at once when nobody queues for it, and queues otherwise
EnterWaitIfNeeded(t, frame) ==
    IF lock = NoTask /\ lock_waiters = <<>>
    THEN /\ UNCHANGED lock_waiters
         /\ Critical(t, frame)
    ELSE /\ lock_waiters' = Append(lock_waiters, t)
         /\ tasks' = [tasks EXCEPT ![t] = [frame EXCEPT !.pc = "lock_wait",
                                                        !.queued = TRUE]]
         /\ UNCHANGED <<request_times, lock, admissions, outbound,
                        conversation_history>>

\* RateLimiter.__init__: stores the limit, no validation
RateLimiterInit(rpm) ==
    /\ limiter = "unconstructed"
    /\ limiter' = "constructed"
    /\ requests_per_minute' = rpm
    /\ request_times' = <<>>
    /\ lock' = NoTask
    /\ lock_waiters' = <<>>
    /\ UNCHANGED <<recentVars, nkeys, clock, tasks, ncalls, admissions,
                   authenticated, conversation_history, outbound, cacheVars>>

\* A task calls wait_if_needed() directly
WaitIfNeeded(t) ==
    /\ limiter = "constructed"
    /\ CanCall(t, MaxCalls)
    /\ ncalls' = ncalls + 1
    /\ EnterWaitIfNeeded(t, NewFrame("wait_if_needed", FALSE, NoKey))
    /\ UNCHANGED <<nkeys, clock, limiterVars, recentVars,
                   authenticated, cacheVars>>

\* The first waiter of a released lock resumes and enters the section
Acquire(t) ==
    /\ tasks[t].pc = "lock_wait"
    /\ lock = NoTask
    /\ lock_waiters # <<>>
    /\ Head(lock_waiters) = t
    /\ lock_waiters' = Tail(lock_waiters)
    /\ Critical(t, tasks[t])
    /\ UNCHANGED <<nkeys, clock, limiterVars, recentVars,
                   ncalls, authenticated, cacheVars>>

\* asyncio.sleep(wait_time) is over: append the time read on entry, return
Wake(t) ==
    /\ tasks[t].pc = "sleeping"
    /\ clock >= tasks[t].wake_at
    /\ Admit(t, tasks[t], request_times, TRUE)
    /\ UNCHANGED <<nkeys, clock, limiterVars, recentVars, lock_waiters, ncalls,
                   authenticated, cacheVars>>

WakeTimes == {tasks[t].wake_at : t \in {u \in Tasks : tasks[u].pc = "sleeping"}}

\* Time passes, to one of the given instants or to a sleeper's wake-up time
Tick(instants) ==
    /\ \E p \in instants \cup WakeTimes :
          /\ p > clock
          /\ clock' = p
    /\ UNCHANGED <<nkeys, limiterVars, recentVars,
                   request_times, lock, lock_waiters,
                   tasks, ncalls, admissions, authenticated, conversation_history,
                   outbound, cacheVars>>

TickLimiter == Tick(LimiterInstants)

InitCommon ==
    /\ recent_files = <<>>
    /\ recent_added = <<>>
    /\ clock = 0
    /\ lock = NoTask
    /\ lock_waiters = <<>>
    /\ tasks = [t \in Tasks |-> IdleFrame]
    /\ ncalls = 0
    /\ nkeys = 0
    /\ admissions = <<>>
    /\ conversation_history = <<>>
    /\ outbound = <<>>
    /\ completion_cache = <<>>

InitLimiter ==
    /\ InitCommon
    /\ request_times = <<>>
    /\ limiter = "unconstructed"
    /\ requests_per_minute = 0
    /\ authenticated = FALSE
    /\ cache_max_size = DefaultCacheMax

NextLimiter ==
    \/ \E rpm \in 0..MaxRPM : RateLimiterInit(rpm)
    \/ \E t \in Tasks : WaitIfNeeded(t)
    \/ \E t \in Tasks : Acquire(t)
    \/ \E t \in Tasks : Wake(t)
    \/ TickLimiter

SpecLimiter == InitLimiter /\ [][NextLimiter]_vars

\* ------------------------------------------------------- completion cache

CacheIdx(cache) == 1..Len(cache)

CacheKeys(cache) == {cache[i].key : i \in CacheIdx(cache)}

\* completion_cache[key]
CacheGet(cache, key) ==
    cache[CHOOSE i \in CacheIdx(cache) : cache[i].key = key].resp

RemoveAt(s, i) == SubSeq(s, 1, i - 1) \o SubSeq(s, i + 1, Len(s))

\* OldestIdx answering the newest entry instead of the oldest
OldestIdx_Newest(cache) ==
    CHOOSE i \in CacheIdx(cache) :
        /\ \A j \in CacheIdx(cache) :
              cache[i].resp.created_at >= cache[j].resp.created_at
        /\ \A j \in 1..(i - 1) :
              cache[j].resp.created_at < cache[i].resp.created_at

\* min(cache.keys(), key=created_at): the first entry, in dict order, among
\* those of smallest created_at
OldestIdx(cache) ==
    CHOOSE i \in CacheIdx(cache) :
        /\ \A j \in CacheIdx(cache) :
              cache[i].resp.created_at <= cache[j].resp.created_at
        /\ \A j \in 1..(i - 1) :
              cache[j].resp.created_at > cache[i].resp.created_at

\* self.completion_cache[key] = response: an existing key keeps its place
\* in the dict, a new key goes last
DictSet(cache, key, response) ==
    IF key \in CacheKeys(cache)
    THEN [i \in CacheIdx(cache) |->
            IF cache[i].key = key
            THEN [key |-> key, resp |-> response]
            ELSE cache[i]]
    ELSE Append(cache, [key |-> key, resp |-> response])

\* AddToCache that keeps the bound by dropping the insert when full
AddToCache_Refuse(cache, key, response, max) ==
    IF Len(cache) >= max THEN cache ELSE DictSet(cache, key, response)

\* AddToCache that, on a full cache, gives the cache up between the eviction
\* and the insert: what the others see is the cache with the entry evicted
AddToCache_EvictOnly(cache, key, response, max) ==
    IF Len(cache) >= max
    THEN RemoveAt(cache, OldestIdx(cache))
    ELSE DictSet(cache, key, response)

\* AddToCache that stores first and makes room afterwards
AddToCache_EvictAfter(cache, key, response, max) ==
    LET stored == DictSet(cache, key, response) IN
    IF Len(stored) >= max
    THEN RemoveAt(stored, OldestIdx(stored))
    ELSE stored

\* AddToCache that leaves a key already present as it is
AddToCache_KeepFirst(cache, key, response, max) ==
    IF key \in CacheKeys(cache)
    THEN cache
    ELSE IF Len(cache) >= max
         THEN DictSet(RemoveAt(cache, OldestIdx(cache)), key, response)
         ELSE DictSet(cache, key, response)

\* AIAssistant._add_to_cache
AddToCache(cache, key, response, max) ==
    IF Len(cache) >= max
    THEN DictSet(RemoveAt(cache, OldestIdx(cache)), key, response)
    ELSE DictSet(cache, key, response)

\* CacheHit that still serves an entry exactly StaleAfter seconds old
CacheHit_Inclusive(cache, key, n) ==
    /\ key # NoKey
    /\ key \in CacheKeys(cache)
    /\ n - CacheGet(cache, key).created_at <= StaleAfter

\* The cache check at the head of get_code_completion
CacheHit(cache, key, n) ==
    /\ key # NoKey
    /\ key \in CacheKeys(cache)
    /\ n - CacheGet(cache, key).created_at < StaleAfter

\* ------------------------------------------------- service entry points

LastN(s, n) == IF Len(s) > n THEN SubSeq(s, Len(s) - n + 1, Len(s)) ELSE s

\* Return of an entry point that stops before the limiter with an error
Refuse(t, frame) ==
    /\ tasks' = [tasks EXCEPT ![t] =
            Done(frame, AIResponse(0, "error", clock), FALSE)]
    /\ UNCHANGED <<request_times, lock, lock_waiters, admissions, outbound,
                   conversation_history>>

\* StartCompletion that goes to the service without asking the limiter
StartCompletion_Unpaced(t, frame) ==
    IF ~authenticated
    THEN Refuse(t, frame)
    ELSE /\ BatchStart(t, frame)
         /\ UNCHANGED <<request_times, lock, lock_waiters, admissions,
                        conversation_history>>

\* generate_completion up to its first await
StartCompletion(t, frame) ==
    IF ~authenticated
    THEN Refuse(t, frame)
    ELSE EnterWaitIfNeeded(t, frame)

\* GeminiCLIService.generate_completion
GenerateCompletion(t, stream) ==
    /\ CanCall(t, ServiceCalls)
    /\ ncalls' = ncalls + 1
    /\ StartCompletion(t, NewFrame("generate_completion", stream, NoKey))
    /\ UNCHANGED <<nkeys, clock, limiterVars, recentVars,
                   authenticated, cacheVars>>

\* ChatCompletion without the test of self.authenticated
ChatCompletion_NoAuthCheck(t) ==
    /\ CanCall(t, ServiceCalls)
    /\ ncalls' = ncalls + 1
    /\ EnterWaitIfNeeded(t, NewFrame("chat_completion", FALSE, NoKey))
    /\ UNCHANGED <<nkeys, clock, limiterVars, recentVars,
                   authenticated, cacheVars>>

\* GeminiCLIService.chat_completion up to its first await
ChatCompletion(t) ==
    /\ CanCall(t, ServiceCalls)
    /\ ncalls' = ncalls + 1
    /\ IF ~authenticated
       THEN Refuse(t, NewFrame("chat_completion", FALSE, NoKey))
       ELSE EnterWaitIfNeeded(t, NewFrame("chat_completion", FALSE, NoKey))
    /\ UNCHANGED <<nkeys, clock, limiterVars, recentVars,
                   authenticated, cacheVars>>

\* An entry point that goes straight to _batch_completion
DirectBatch(t, op) ==
    /\ CanCall(t, ServiceCalls)
    /\ ncalls' = ncalls + 1
    /\ BatchStart(t, NewFrame(op, FALSE, NoKey))
    /\ UNCHANGED <<nkeys, clock, limiterVars, recentVars,
                   request_times, lock, lock_waiters,
                   admissions, authenticated, conversation_history,
                   cacheVars>>

\* GeminiCLIService.analyze_code
AnalyzeCode(t) == DirectBatch(t, "analyze_code")

\* GeminiCLIService.generate_documentation
GenerateDocumentation(t) == DirectBatch(t, "generate_documentation")

\* GeminiCLIService.generate_tests
GenerateTests(t) == DirectBatch(t, "generate_tests")

\* Cache keys are opaque and interchangeable: a call uses a key used before
\* or the next unused one
KeyChoice(key) ==
    \E i \in 1..Len(KeyOrder) :
        /\ KeyOrder[i] = key
        /\ i <= nkeys + 1
        /\ nkeys' = IF i > nkeys THEN i ELSE nkeys

\* GetCodeCompletion whose lookup deletes the stale entry it finds
GetCodeCompletion_DropsStale(t, key) ==
    /\ CanCall(t, CacheCalls)
    /\ KeyChoice(key)
    /\ ncalls' = ncalls + 1
    /\ LET frame == NewFrame("get_code_completion", FALSE, key) IN
       IF CacheHit(completion_cache, key, clock)
       THEN /\ tasks' = [tasks EXCEPT ![t] =
                    Done(frame, CacheGet(completion_cache, key), TRUE)]
            /\ UNCHANGED <<request_times, lock, lock_waiters, admissions,
                           outbound, conversation_history>>
       ELSE StartCompletion(t, frame)
    /\ completion_cache' =
          IF key \in CacheKeys(completion_cache)
                /\ ~CacheHit(completion_cache, key, clock)
          THEN SelectSeq(completion_cache, LAMBDA e : e.key # key)
          ELSE completion_cache
    /\ UNCHANGED <<clock, limiterVars, recentVars,
                   authenticated, cache_max_size>>

\* AIAssistant.get_code_completion up to its first await
GetCodeCompletion(t, key) ==
    /\ CanCall(t, CacheCalls)
    /\ KeyChoice(key)
    /\ ncalls' = ncalls + 1
    /\ LET frame == NewFrame("get_code_completion", FALSE, key) IN
       IF CacheHit(completion_cache, key, clock)
       THEN /\ tasks' = [tasks EXCEPT ![t] =
                    Done(frame, CacheGet(completion_cache, key), TRUE)]
            /\ UNCHANGED <<request_times, lock, lock_waiters, admissions,
                           outbound, conversation_history>>
       ELSE StartCompletion(t, frame)
    /\ UNCHANGED <<clock, limiterVars, recentVars, authenticated, cacheVars>>

\* AIAssistant.get_code_completion called with cache_key None or "", up to
\* its first await: "cache_key and ..." is false whatever the cache holds
GetCodeCompletionNoKey(t) ==
    /\ CanCall(t, CacheCalls)
    /\ ncalls' = ncalls + 1
    /\ LET frame == NewFrame("get_code_completion", FALSE, NoKey) IN
       IF CacheHit(completion_cache, NoKey, clock)
       THEN /\ tasks' = [tasks EXCEPT ![t] =
                    Done(frame, CacheGet(completion_cache, NoKey), TRUE)]
            /\ UNCHANGED <<request_times, lock, lock_waiters, admissions,
                           outbound, conversation_history>>
       ELSE StartCompletion(t, frame)
    /\ UNCHANGED <<nkeys, clock, limiterVars, recentVars,
                   authenticated, cacheVars>>

\* The text the external service answers to call number id: every call
\* gets an answer of its own
Content(id) == id

\* Respond that caches whatever came back, error responses included
Respond_StoresErrors(t, ok) ==
    /\ tasks[t].pc = "calling"
    /\ LET frame == tasks[t]
           response == IF ok THEN AIResponse(Content(frame.id), "stop", clock)
                             ELSE AIResponse(0, "error", clock)
       IN  /\ tasks' = [tasks EXCEPT ![t] = Done(frame, response, FALSE)]
           /\ conversation_history' =
                IF frame.op = "chat_completion" /\ ok
                THEN LastN(Append(conversation_history, "assistant"),
                           HistoryMax)
                ELSE conversation_history
           /\ completion_cache' =
                IF frame.op = "get_code_completion" /\ frame.key # NoKey
                THEN AddToCache(completion_cache, frame.key, response,
                                cache_max_size)
                ELSE completion_cache
    /\ UNCHANGED <<nkeys, clock, limiterVars, recentVars,
                   request_times, lock, lock_waiters,
                   ncalls, admissions, authenticated, outbound,
                   cache_max_size>>

\* Respond that caches a successful response also when the call had no key
Respond_StoresKeyless(t, ok) ==
    /\ tasks[t].pc = "calling"
    /\ LET frame == tasks[t]
           response == IF ok THEN AIResponse(Content(frame.id), "stop", clock)
                             ELSE AIResponse(0, "error", clock)
       IN  /\ tasks' = [tasks EXCEPT ![t] = Done(frame, response, FALSE)]
           /\ conversation_history' =
                IF frame.op = "chat_completion" /\ ok
                THEN LastN(Append(conversation_history, "assistant"),
                           HistoryMax)
                ELSE conversation_history
           /\ completion_cache' =
                IF frame.op = "get_code_completion" /\ ok
                THEN AddToCache(completion_cache, frame.key, response,
                                cache_max_size)
                ELSE completion_cache
    /\ UNCHANGED <<nkeys, clock, limiterVars, recentVars,
                   request_times, lock, lock_waiters,
                   ncalls, admissions, authenticated, outbound,
                   cache_max_size>>

\* _batch_completion returns (the subprocess ended, well or not) and its
\* caller runs to its end
Respond(t, ok) ==
    /\ tasks[t].pc = "calling"
    /\ LET frame == tasks[t]
           response == IF ok THEN AIResponse(Content(frame.id), "stop", clock)
                             ELSE AIResponse(0, "error", clock)
       IN  /\ tasks' = [tasks EXCEPT ![t] = Done(frame, response, FALSE)]
           /\ conversation_history' =
                IF frame.op = "chat_completion" /\ ok
                THEN LastN(Append(conversation_history, "assistant"),
                           HistoryMax)
                ELSE conversation_history
           /\ completion_cache' =
                IF frame.op = "get_code_completion" /\ frame.key # NoKey /\ ok
                THEN AddToCache(completion_cache, frame.key, response,
                                cache_max_size)
                ELSE completion_cache
    /\ UNCHANGED <<nkeys, clock, limiterVars, recentVars,
                   request_times, lock, lock_waiters,
                   ncalls, admissions, authenticated, outbound,
                   cache_max_size>>

\* ClearCache that drops the oldest entry only
ClearCache_DropsOne ==
    /\ completion_cache' =
          IF completion_cache = <<>>
          THEN <<>>
          ELSE RemoveAt(completion_cache, OldestIdx(completion_cache))
    /\ UNCHANGED <<nkeys, clock, limiterVars, recentVars,
                   request_times, lock, lock_waiters,
                   tasks, ncalls, admissions, authenticated,
                   conversation_history, outbound, cache_max_size>>

\* AIAssistant.clear_cache
ClearCache ==
    /\ completion_cache' = <<>>
    /\ UNCHANGED <<nkeys, clock, limiterVars, recentVars,
                   request_times, lock, lock_waiters,
                   tasks, ncalls, admissions, authenticated,
                   conversation_history, outbound, cache_max_size>>

\* What a caller makes of the response it was given: the text rewritten, or
\* the creation time set back by five minutes
Modified(response, field) ==
    IF field = "content"
    THEN [response EXCEPT !.content = 0 - response.content]
    ELSE [response EXCEPT !.created_at = response.created_at - StaleAfter]

\* The caller of a finished get_code_completion assigns to a field of the
\* response it holds. get_code_completion returns the object it stored, and
\* on a hit the object the cache holds: the assignment shows wherever that
\* object is referenced. Every response has a text of its own, so equal
\* records are one object.
CallerModifies(t, field) ==
    /\ tasks[t].pc = "done"
    /\ tasks[t].op = "get_code_completion"
    /\ tasks[t].resp.finish_reason = "stop"
    /\ tasks[t].resp.content > 0
    /\ tasks[t].resp.created_at >= 0
    /\ LET object == tasks[t].resp
           modified == Modified(object, field)
       IN  /\ tasks' = [u \in Tasks |->
                    IF tasks[u].pc = "done" /\ tasks[u].resp = object
                    THEN [tasks[u] EXCEPT !.resp = modified]
                    ELSE tasks[u]]
           /\ completion_cache' = [i \in CacheIdx(completion_cache) |->
                    IF completion_cache[i].resp = object
                    THEN [completion_cache[i] EXCEPT !.resp = modified]
                    ELSE completion_cache[i]]
    /\ UNCHANGED <<nkeys, clock, limiterVars, recentVars,
                   request_times, lock, lock_waiters,
                   ncalls, admissions, authenticated, conversation_history,
                   outbound, cache_max_size>>

\* GeminiCLIService.authenticate succeeding (a failed attempt changes nothing)
Authenticate ==
    /\ ~authenticated
    /\ authenticated' = TRUE
    /\ UNCHANGED <<nkeys, clock, limiterVars, recentVars,
                   request_times, lock, lock_waiters,
                   tasks, ncalls, admissions, conversation_history, outbound,
                   cacheVars>>

TickService == Tick(ServiceInstants)

TickCache == Tick(CacheInstants)

\* request_times after ServiceRPM requests admitted at time 0: a full window
Backlog == [i \in 1..ServiceRPM |-> 0]

\* GeminiCLIService.__init__ (_initialize finds an active account or not),
\* fresh or with a full window of requests behind it
InitService ==
    /\ InitCommon
    /\ limiter = "constructed"
    /\ requests_per_minute = ServiceRPM
    /\ request_times \in {<<>>, Backlog}
    /\ authenticated \in BOOLEAN
    /\ cache_max_size = DefaultCacheMax

NextService ==
    \/ \E t \in Tasks, stream \in BOOLEAN : GenerateCompletion(t, stream)
    \/ \E t \in Tasks : ChatCompletion(t)
    \/ \E t \in Tasks : AnalyzeCode(t)
    \/ \E t \in Tasks : GenerateDocumentation(t)
    \/ \E t \in Tasks : GenerateTests(t)
    \/ \E t \in Tasks : Acquire(t)
    \/ \E t \in Tasks : Wake(t)
    \/ \E t \in Tasks, ok \in BOOLEAN : Respond(t, ok)
    \/ Authenticate
    \/ TickService

SpecService == InitService /\ [][NextService]_vars

\* AIAssistant.__init__ over a fresh service; cache_max_size is an attribute
\* of the assistant, drawn small here
InitCache ==
    /\ InitCommon
    /\ limiter = "constructed"
    /\ requests_per_minute = ServiceRPM
    /\ request_times = <<>>
    /\ authenticated \in BOOLEAN
    /\ cache_max_size \in 1..MaxCacheSize

NextCache ==
    \/ \E t \in Tasks, key \in Keys : GetCodeCompletion(t, key)
    \/ \E t \in Tasks, ok \in BOOLEAN : Respond(t, ok)
    \/ ClearCache
    \/ TickCache

SpecCache == InitCache /\ [][NextCache]_vars

\* The instants around the end of an entry's freshness
StaleInstants == {0, StaleAfter - 1, StaleAfter, StaleAfter + 1}

TickStale == Tick(StaleInstants)

\* Two keys are enough for one entry to age while the other is used
StaleKeys == {KeyOrder[1], KeyOrder[2]}

\* The assistant used over the five minutes an entry stays fresh and beyond
NextStale ==
    \/ \E t \in Tasks, key \in StaleKeys : GetCodeCompletion(t, key)
    \/ \E t \in Tasks, ok \in BOOLEAN : Respond(t, ok)
    \/ TickStale

SpecStale == InitCache /\ [][NextStale]_vars

\* AIAssistant.__init__ over a service that is fresh or has a full window of
\* requests behind it
InitAssistant ==
    /\ InitCommon
    /\ limiter = "constructed"
    /\ requests_per_minute = ServiceRPM
    /\ request_times \in {<<>>, Backlog}
    /\ authenticated \in BOOLEAN
    /\ cache_max_size \in 1..MaxCacheSize

\* The end of the limiter's window and the end of an entry's freshness
AssistantInstants == {0, Window, StaleAfter}

TickAssistant == Tick(AssistantInstants)

\* The assistant over a service whose limiter may make its callers wait
NextAssistant ==
    \/ \E t \in Tasks, key \in StaleKeys : GetCodeCompletion(t, key)
    \/ \E t \in Tasks : Acquire(t)
    \/ \E t \in Tasks : Wake(t)
    \/ \E t \in Tasks, ok \in BOOLEAN : Respond(t, ok)
    \/ TickAssistant

SpecAssistant == InitAssistant /\ [][NextAssistant]_vars

\* The assistant with callers that write to the responses they are given
NextAlias ==
    \/ \E t \in Tasks, key \in StaleKeys : GetCodeCompletion(t, key)
    \/ \E t \in Tasks, ok \in BOOLEAN : Respond(t, ok)
    \/ \E t \in Tasks, field \in {"content", "created_at"} :
            CallerModifies(t, field)
    \/ TickCache

SpecAlias == InitCache /\ [][NextAlias]_vars

\* conversation_history after ten or more successful exchanges: the last
\* HistoryMax entries, user and assistant in turn
FullHistory ==
    [i \in 1..HistoryMax |-> IF i % 2 = 1 THEN "user" ELSE "assistant"]

\* GeminiCLIService.__init__, fresh or with a long conversation behind it
InitChat ==
    /\ recent_files = <<>>
    /\ recent_added = <<>>
    /\ clock = 0
    /\ lock = NoTask
    /\ lock_waiters = <<>>
    /\ tasks = [t \in Tasks |-> IdleFrame]
    /\ ncalls = 0
    /\ nkeys = 0
    /\ admissions = <<>>
    /\ conversation_history \in {<<>>, FullHistory}
    /\ outbound = <<>>
    /\ completion_cache = <<>>
    /\ limiter = "constructed"
    /\ requests_per_minute = ServiceRPM
    /\ request_times = <<>>
    /\ authenticated \in BOOLEAN
    /\ cache_max_size = DefaultCacheMax

\* The chat entry point of the service
NextChat ==
    \/ \E t \in Tasks : ChatCompletion(t)
    \/ \E t \in Tasks, ok \in BOOLEAN : Respond(t, ok)
    \/ Authenticate
    \/ TickService

SpecChat == InitChat /\ [][NextChat]_vars

\* The assistant called with and without a cache key
NextKeyless ==
    \/ \E t \in Tasks : GetCodeCompletion(t, KeyOrder[1])
    \/ \E t \in Tasks : GetCodeCompletionNoKey(t)
    \/ \E t \in Tasks, ok \in BOOLEAN : Respond(t, ok)
    \/ TickCache

SpecKeyless == InitCache /\ [][NextKeyless]_vars

\* ------------------------------------------- FileManager (config_utils.py)

\* recent_files[:limit]
FirstN(s, n) == IF Len(s) > n THEN SubSeq(s, 1, n) ELSE s

\* FileManager.get_recent_files(limit): the first limit entries of the file
GetRecentFiles(limit) == FirstN(recent_files, limit)

\* Paths are interchangeable: a call adds a path added before or the next
\* new one (paths are numbered in the order of their first addition)
PathChoice(file_path) ==
    \/ file_path \in Range(recent_added)
    \/ file_path = Len(recent_added) + 1

\* FileManager.add_recent_file(file_path): the list is read with the default
\* limit of get_recent_files, the path is moved or put to the front, the
\* list is cut to RecentMax and written back
AddRecentFile(file_path) ==
    /\ ncalls < MaxAdds
    /\ ncalls' = ncalls + 1
    /\ PathChoice(file_path)
    /\ LET loaded == GetRecentFiles(RecentLimit)
           removed == SelectSeq(loaded, LAMBDA f : f # file_path)
           inserted == <<file_path>> \o removed
       IN  recent_files' = FirstN(inserted, RecentMax)
    /\ recent_added' =
          <<file_path>> \o SelectSeq(recent_added, LAMBDA f : f # file_path)
    /\ UNCHANGED <<clock, limiterVars, request_times, lock, lock_waiters,
                   tasks, nkeys, admissions, authenticated,
                   conversation_history, outbound, cacheVars>>

\* The list after paths 1..RecentFilled were added in that order
FilledList == [i \in 1..RecentFilled |-> RecentFilled + 1 - i]

\* A fresh configuration directory, or one in which RecentFilled files were
\* opened before
InitRecent ==
    /\ \/ recent_files = <<>> /\ recent_added = <<>>
       \/ recent_files = FilledList /\ recent_added = FilledList
    /\ clock = 0
    /\ lock = NoTask
    /\ lock_waiters = <<>>
    /\ tasks = [t \in Tasks |-> IdleFrame]
    /\ ncalls = 0
    /\ nkeys = 0
    /\ admissions = <<>>
    /\ conversation_history = <<>>
    /\ outbound = <<>>
    /\ completion_cache = <<>>
    /\ limiter = "unconstructed"
    /\ requests_per_minute = 0
    /\ request_times = <<>>
    /\ authenticated = FALSE
    /\ cache_max_size = DefaultCacheMax

NextRecent == \E file_path \in 1..(RecentFilled + MaxAdds) :
                  AddRecentFile(file_path)

SpecRecent == InitRecent /\ [][NextRecent]_vars

\* Fairness: time advances, and the event loop resumes a task whose lock
\* was granted or whose sleep is over
FairLimiter ==
    /\ WF_vars(TickLimiter)
    /\ \A t \in Tasks : WF_vars(Acquire(t))
    /\ \A t \in Tasks : WF_vars(Wake(t))

LiveLimiter == SpecLimiter /\ FairLimiter

\* =================================================================== claims

AdmissionIdx == 1..Len(admissions)

\* Admissions that happened less than Window seconds before the current time
RecentAdmissions == {i \in AdmissionIdx : clock - admissions[i].at < Window}

\* C1: with a positive limit M, the number of calls admitted (returned)
\* within the trailing 60 seconds never exceeds M.
C1_AdmissionsPerWindow ==
    requests_per_minute > 0 =>
        Cardinality(RecentAdmissions) <= requests_per_minute

\* Admissions that happened in the 60 seconds starting at instant from
AdmittedFrom(from) ==
    {i \in AdmissionIdx :
        admissions[i].at >= from /\ admissions[i].at < from + Window}

\* All calls issued so far were issued at time 0 and every one has returned
BurstDone ==
    /\ requests_per_minute > 0
    /\ ncalls > requests_per_minute
    /\ Len(admissions) = ncalls
    /\ \A i \in AdmissionIdx : admissions[i].called = 0

\* C2: N > M calls launched together on a fresh limiter: exactly M are
\* admitted in the first 60 seconds, every later 60-second window admits at
\* most M, and every call is admitted exactly once.
C2_BurstAdmission ==
    BurstDone =>
        /\ Cardinality(AdmittedFrom(0)) = requests_per_minute
        /\ \A i \in AdmissionIdx :
              Cardinality(AdmittedFrom(admissions[i].at))
                  <= requests_per_minute
        /\ \A i, j \in AdmissionIdx :
              admissions[i].id = admissions[j].id => i = j
        /\ {admissions[i].id : i \in AdmissionIdx} = 1..ncalls

\* C3: a caller parked in its sleep does not hold the limiter's lock, so no
\* other caller queues for the lock while somebody sleeps.
C3_SleeperHoldsNoLock ==
    \A t \in Tasks :
        tasks[t].pc = "sleeping" =>
            /\ lock # t
            /\ \A u \in Tasks : tasks[u].pc # "lock_wait"

\* The admissions recorded before admission j whose timestamp was still
\* inside the window when j read the time
VisibleTo(j) ==
    {i \in 1..(j - 1) : admissions[j].now - admissions[i].now < Window}

\* C4: the read-purge-decide-append sequence is mutually exclusive: every
\* caller counts exactly the earlier admissions still inside its window
\* (no append is missed), and a caller that proceeds without waiting saw
\* fewer than M of them, so two callers never take the same last slot.
C4_ExclusiveSection ==
    \A j \in AdmissionIdx :
        /\ admissions[j].seen = Cardinality(VisibleTo(j))
        /\ ~admissions[j].waited =>
              Cardinality(VisibleTo(j)) < requests_per_minute

C4_Witness ==
    /\ requests_per_minute = 2
    /\ Len(admissions) = 3
    /\ admissions[1].seen = 0 /\ ~admissions[1].waited
    /\ admissions[2].seen = 1 /\ ~admissions[2].waited
    /\ admissions[2].now = admissions[1].now
    /\ admissions[3].called = admissions[2].now
    /\ admissions[3].seen = 2
    /\ admissions[3].waited

\* C5: a call that finds at least M timestamps left after the purge (so
\* that there is an oldest one) suspends, its sleep ends 60 seconds after
\* the oldest retained timestamp and it returns no earlier; with M = 2 and
\* three calls at t = 0 the first two return at 0 and the third sleeps
\* until 60.
C5_WaitsForOldest ==
    /\ \A t \in Tasks :
          (/\ tasks[t].pc = "sleeping"
           /\ tasks[t].seen >= requests_per_minute
           /\ tasks[t].seen > 0)
          => tasks[t].wake_at = tasks[t].oldest + Window
    /\ \A i \in AdmissionIdx :
          LET a == admissions[i] IN
          /\ (a.seen >= requests_per_minute /\ a.seen > 0) =>
                /\ a.waited
                /\ a.wake_at = a.oldest + Window
                /\ a.at >= a.oldest + Window
          /\ (requests_per_minute = 2 /\ a.called = 0 /\ a.id \in {1, 2}) =>
                (~a.waited /\ a.at = 0)
          /\ (requests_per_minute = 2 /\ a.called = 0 /\ a.id = 3) =>
                (a.waited /\ a.wake_at = Window /\ a.at >= Window)

C5_Witness ==
    /\ requests_per_minute = 2
    /\ Len(admissions) = 3
    /\ \A i \in AdmissionIdx :
          admissions[i].called = 0 /\ admissions[i].id = i
    /\ admissions[3].waited
    /\ admissions[3].at = Window

\* C7: no limiter object with a non-positive limit exists: construction
\* with requests_per_minute <= 0 fails with InvalidConfiguration.
C7_NoNonPositiveLimiter ==
    limiter = "constructed" => requests_per_minute > 0

\* C8: with a positive limit, every call that queues for the lock or sleeps
\* eventually returns.
C8_EventuallyAdmitted ==
    \A t \in Tasks :
        (requests_per_minute > 0
            /\ tasks[t].pc \in {"lock_wait", "sleeping"})
        ~> (tasks[t].pc = "returned")

C8_Witness ==
    /\ requests_per_minute = 1
    /\ \E i, j \in AdmissionIdx :
          /\ i < j
          /\ admissions[i].waited
          /\ admissions[j].queued
          /\ admissions[j].waited
          /\ admissions[j].called < admissions[i].at
    /\ \A t \in Tasks : tasks[t].pc = "returned"

\* An outbound call whose caller went through wait_if_needed() first
Admitted(o) == \E i \in AdmissionIdx : admissions[i].id = o.id

\* C6: every outbound call to the external service, whichever entry point
\* it comes from, is preceded by an admission of its own.
C6_OutboundAdmitted ==
    \A k \in 1..Len(outbound) : Admitted(outbound[k])

KeysDistinct(cache) ==
    \A i, j \in CacheIdx(cache) : cache[i].key = cache[j].key => i = j

\* A step in which task t stores its response under its key
Stores(t) ==
    /\ tasks[t].pc = "calling"
    /\ tasks'[t].pc = "done"
    /\ tasks[t].op = "get_code_completion"
    /\ tasks[t].key # NoKey
    /\ tasks'[t].resp.finish_reason # "error"

\* C9: the cache never holds more than cache_max_size entries, and an
\* insert is never refused: right after a response is stored under a key,
\* the key is present and maps to that response.
C9_BoundedByEviction ==
    /\ [](/\ Len(completion_cache) <= cache_max_size
          /\ KeysDistinct(completion_cache))
    /\ [][\A t \in Tasks :
            Stores(t) =>
                /\ tasks[t].key \in CacheKeys(completion_cache')
                /\ CacheGet(completion_cache', tasks[t].key) = tasks'[t].resp
                /\ Len(completion_cache') <= cache_max_size]_vars

C9_Witness ==
    /\ cache_max_size = 2
    /\ Len(completion_cache) = 2
    /\ ncalls = 3
    /\ \E t \in Tasks :
          /\ tasks[t].pc = "done"
          /\ ~tasks[t].hit
          /\ tasks[t].resp.finish_reason = "stop"
          /\ tasks[t].resp.content = 3
          /\ completion_cache[2] = [key |-> "c", resp |-> tasks[t].resp]

\* The entries of cache that are no older than entry i, and among those of
\* its age come after it
OutlivedBy(cache, i) ==
    \A j \in CacheIdx(cache) :
        \/ cache[i].resp.created_at < cache[j].resp.created_at
        \/ cache[i].resp.created_at = cache[j].resp.created_at /\ i <= j

\* C10: storing a new key into a full cache evicts exactly one entry, the
\* one of smallest created_at (among equals, the one that entered the cache
\* first), and leaves every other entry in place, before the new one.
C10_EvictsOldest ==
    [][\A t \in Tasks :
        (/\ Stores(t)
         /\ tasks[t].key \notin CacheKeys(completion_cache)
         /\ Len(completion_cache) = cache_max_size)
        => \E i \in CacheIdx(completion_cache) :
              /\ OutlivedBy(completion_cache, i)
              /\ completion_cache' =
                    Append(RemoveAt(completion_cache, i),
                           [key |-> tasks[t].key, resp |-> tasks'[t].resp])
      ]_vars

\* max 2, puts of a, b, c at t = 0, 1, 2 leave exactly b and c
C10_Witness ==
    /\ cache_max_size = 2
    /\ Len(completion_cache) = 2
    /\ completion_cache[1].key = "b"
    /\ completion_cache[1].resp.created_at = 1
    /\ completion_cache[1].resp.content = 2
    /\ completion_cache[2].key = "c"
    /\ completion_cache[2].resp.created_at = 2
    /\ completion_cache[2].resp.content = 3
    /\ Len(outbound) = 3
    /\ outbound[1].at = 0

\* C11: storing a response under a key already present never evicts an
\* entry: whatever the cache holds (a full cache included), the set of keys
\* is the same after the store and only the stored key's value differs.
C11_OverwriteEvictsNothing ==
    [][\A t \in Tasks :
        (Stores(t) /\ tasks[t].key \in CacheKeys(completion_cache))
        => /\ CacheKeys(completion_cache') = CacheKeys(completion_cache)
           /\ \A k \in CacheKeys(completion_cache) \ {tasks[t].key} :
                 CacheGet(completion_cache', k) = CacheGet(completion_cache, k)
      ]_vars

\* C12: with cache_max_size = 1, storing X under key a and then Y under the
\* same key a leaves exactly one entry, a mapped to Y.
C12_OverwriteAtSizeOne ==
    [][\A t \in Tasks :
        (/\ Stores(t)
         /\ cache_max_size = 1
         /\ CacheKeys(completion_cache) = {tasks[t].key})
        => completion_cache' =
              <<[key |-> tasks[t].key, resp |-> tasks'[t].resp]>>
      ]_vars

\* Two calls with key a both missed and both stored; the second answer is
\* the one the cache holds
C12_Witness ==
    /\ cache_max_size = 1
    /\ ncalls = 2
    /\ Len(outbound) = 2
    /\ \A t \in Tasks :
          /\ tasks[t].pc = "done"
          /\ tasks[t].key = "a"
          /\ tasks[t].resp.finish_reason = "stop"
    /\ \E t \in Tasks :
          /\ tasks[t].resp.content = 2
          /\ tasks[t].resp.created_at = 1
          /\ completion_cache = <<[key |-> "a", resp |-> tasks[t].resp]>>
    /\ \E t \in Tasks :
          tasks[t].resp.content = 1 /\ tasks[t].resp.created_at = 0

\* A step in which task t enters get_code_completion and looks its key up
Looks(t) == CanCall(t, CacheCalls) /\ ncalls' = ncalls + 1

\* The lookup of task t, entering with key, was answered from the cache
AnsweredFromCache(t, key) ==
    /\ tasks'[t].pc = "done"
    /\ tasks'[t].hit
    /\ tasks'[t].resp = CacheGet(completion_cache, key)
    /\ outbound' = outbound

\* C13: a lookup is a hit if and only if the key is present and
\* now - created_at < 300: an entry stored at t = 0 is returned at t = 299
\* and treated as absent (the call goes on to the service) at 300 and 301.
C13_FreshFor300 ==
    [][\A t \in Tasks :
        Looks(t) =>
          LET key == tasks'[t].key
              present == key \in CacheKeys(completion_cache)
              age == clock - CacheGet(completion_cache, key).created_at
          IN  /\ AnsweredFromCache(t, key) <=> (present /\ age < 300)
              /\ tasks'[t].hit => AnsweredFromCache(t, key)
              /\ (present /\ age = 299) => AnsweredFromCache(t, key)
              /\ (present /\ age \in {300, 301}) =>
                    /\ ~tasks'[t].hit
                    /\ IF authenticated
                       THEN /\ tasks'[t].pc = "calling"
                            /\ Len(outbound') = Len(outbound) + 1
                       ELSE tasks'[t].resp.finish_reason = "error"
      ]_vars

\* a stored at 0 by call 1, call 2 answered from the cache, call 3 at
\* t = 300 sent to the service although a is still in the cache
C13_Witness ==
    /\ clock = StaleAfter
    /\ ncalls = 3
    /\ Len(outbound) = 2
    /\ outbound[1].id = 1 /\ outbound[1].at = 0
    /\ outbound[2].id = 3 /\ outbound[2].at = StaleAfter
    /\ "a" \in CacheKeys(completion_cache)
    /\ CacheGet(completion_cache, "a").created_at = 0
    /\ \E t \in Tasks :
          /\ tasks[t].pc = "calling"
          /\ tasks[t].key = "a"
          /\ tasks[t].id = 3

\* C14: once a successful get_code_completion with key k has stored X, a
\* get_code_completion with the same k that follows immediately returns X
\* from the cache: the insertion does not evict its own key, the entry is
\* fresh, and a lookup finding it answers with it.
C14_StoreThenHit ==
    [][\A t \in Tasks :
        /\ Stores(t) =>
              /\ CacheHit(completion_cache', tasks[t].key, clock')
              /\ CacheGet(completion_cache', tasks[t].key) = tasks'[t].resp
        /\ (Looks(t) /\ CacheHit(completion_cache, tasks'[t].key, clock)) =>
              AnsweredFromCache(t, tasks'[t].key)
      ]_vars

\* Call 1 stored a at t = 0 in a cache of one entry and call 2, at the same
\* instant, got that answer back without a second outbound call
C14_Witness ==
    /\ clock = 0
    /\ cache_max_size = 1
    /\ ncalls = 2
    /\ Len(outbound) = 1
    /\ \E t \in Tasks :
          /\ tasks[t].pc = "done"
          /\ tasks[t].hit
          /\ tasks[t].key = "a"
          /\ tasks[t].resp = AIResponse(Content(1), "stop", 0)
          /\ completion_cache = <<[key |-> "a", resp |-> tasks[t].resp]>>
    /\ \A t \in Tasks : tasks[t].pc # "calling"

\* The admissions, and the outbound calls, made for call number id
AdmissionsOf(id) == {i \in AdmissionIdx : admissions[i].id = id}

OutboundOf(id) == {k \in 1..Len(outbound) : outbound[k].id = id}

\* A get_code_completion between its lookup and its return: while it waits
\* for the limiter it has neither admission nor outbound call, and while
\* the service works on it it has one admission and, after it, one
\* outbound call
MissInFlight ==
    \A t \in Tasks :
        tasks[t].op = "get_code_completion" =>
            /\ tasks[t].pc \in {"lock_wait", "sleeping"} =>
                  /\ AdmissionsOf(tasks[t].id) = {}
                  /\ OutboundOf(tasks[t].id) = {}
            /\ tasks[t].pc = "calling" =>
                  /\ Cardinality(AdmissionsOf(tasks[t].id)) = 1
                  /\ Cardinality(OutboundOf(tasks[t].id)) = 1
                  /\ \A i \in AdmissionsOf(tasks[t].id),
                        k \in OutboundOf(tasks[t].id) :
                        admissions[i].at <= outbound[k].at

\* The lookup of task t is a fresh hit: answered from the cache, the
\* limiter not asked and nothing sent
HitStep(t) ==
    /\ AnsweredFromCache(t, tasks'[t].key)
    /\ UNCHANGED <<request_times, lock, lock_waiters, admissions, outbound>>

\* The lookup of task t missed and the call went on to ask the limiter
MissStep(t) ==
    /\ tasks'[t].pc \in {"lock_wait", "sleeping", "calling"}
    /\ ~tasks'[t].hit

\* The lookup of task t missed and the service refused the call at once
RefusedStep(t) ==
    /\ tasks'[t].pc = "done"
    /\ ~tasks'[t].hit
    /\ tasks'[t].resp.finish_reason = "error"
    /\ UNCHANGED <<request_times, lock, lock_waiters, admissions, outbound,
                   completion_cache>>

\* The outbound call of task t returns: its result is stored if and only if
\* it succeeded
StoredOnlyOnSuccess(t) ==
    (/\ tasks[t].pc = "calling"
     /\ tasks'[t].pc = "done"
     /\ tasks[t].op = "get_code_completion")
    => /\ UNCHANGED <<admissions, outbound>>
       /\ IF tasks'[t].resp.finish_reason = "error"
          THEN completion_cache' = completion_cache
          ELSE CacheGet(completion_cache', tasks[t].key) = tasks'[t].resp

\* C15 as stated: a fresh hit returns the cached response without asking
\* the limiter and without an outbound call; every miss (absent or stale)
\* requests one admission, followed by one outbound call, and the result is
\* stored afterwards only if it succeeded.
C15_MissAlwaysAdmitted ==
    /\ []MissInFlight
    /\ [][\A t \in Tasks :
            /\ Looks(t) =>
                  IF CacheHit(completion_cache, tasks'[t].key, clock)
                  THEN HitStep(t)
                  ELSE MissStep(t)
            /\ StoredOnlyOnSuccess(t)]_vars

\* C15 amended: as stated while the service is authenticated; a miss on an
\* unauthenticated service returns an error response at once, with no
\* admission, no outbound call and nothing stored.
C15_HitSkipsMissAdmits ==
    /\ []MissInFlight
    /\ [][\A t \in Tasks :
            /\ Looks(t) =>
                  IF CacheHit(completion_cache, tasks'[t].key, clock)
                  THEN HitStep(t)
                  ELSE IF authenticated THEN MissStep(t) ELSE RefusedStep(t)
            /\ StoredOnlyOnSuccess(t)]_vars

\* Full window behind the service: call 1 slept to t = 60 before its
\* outbound call and stored a; call 2 queued behind it, was admitted and
\* is with the service; call 3 was answered a from the cache
C15_Witness ==
    /\ authenticated
    /\ ncalls = 3
    /\ Len(admissions) = 2
    /\ admissions[1].waited
    /\ admissions[2].queued
    /\ Len(outbound) = 2
    /\ outbound[1].at = Window
    /\ \E t, u \in Tasks :
          /\ tasks[t].pc = "done"
          /\ tasks[t].hit
          /\ tasks[t].key = "a"
          /\ tasks[t].resp.content = Content(1)
          /\ tasks[u].pc = "calling"
          /\ tasks[u].id = 2

\* A step in which a get_code_completion of task t returns an error
\* response, refused at once or after a failed outbound call
FailsNow(t) ==
    /\ Looks(t) \/ tasks[t].pc = "calling"
    /\ tasks'[t].pc = "done"
    /\ tasks'[t].resp.finish_reason = "error"

\* C16: an entry enters completion_cache only through a successful outbound
\* call: no entry holds an error response, every entry is the answer to an
\* outbound call, the cache changes only when a successful call stores (or
\* when it is cleared), and a failed get_code_completion leaves it as it was.
C16_OnlySuccessStored ==
    /\ [](\A i \in CacheIdx(completion_cache) :
            /\ completion_cache[i].resp.finish_reason = "stop"
            /\ \E k \in 1..Len(outbound) :
                  /\ Content(outbound[k].id) = completion_cache[i].resp.content
                  /\ outbound[k].at <= completion_cache[i].resp.created_at)
    /\ [][/\ completion_cache' # completion_cache =>
                \/ completion_cache' = <<>>
                \/ \E t \in Tasks : Stores(t)
          /\ \A t \in Tasks :
                FailsNow(t) => completion_cache' = completion_cache
         ]_vars

\* Call 1 stored a; call 2, for the same key, went out and failed: the
\* cache still holds the answer of call 1
C16_Witness ==
    /\ ncalls = 2
    /\ Len(outbound) = 2
    /\ completion_cache =
          <<[key |-> "a", resp |-> AIResponse(Content(1), "stop", 0)]>>
    /\ \E t \in Tasks :
          /\ tasks[t].pc = "done"
          /\ tasks[t].key = "a"
          /\ ~tasks[t].hit
          /\ tasks[t].resp.finish_reason = "error"
          /\ tasks[t].resp.created_at = 1

\* A step of clear_cache: no call starts or returns and no time passes
Clears == UNCHANGED <<tasks, ncalls, clock>>

\* C17: after clear_cache() the cache is empty whatever it held, and a key
\* inserted before is looked up as a miss until it is stored again: a key
\* comes (back) into the cache only by a store under that key, and a lookup
\* of a key that is not in the cache is never answered from the cache.
C17_ClearEmpties ==
    [][/\ Clears => completion_cache' = <<>>
       /\ \A k \in CacheKeys(completion_cache') \ CacheKeys(completion_cache) :
             \E t \in Tasks : Stores(t) /\ tasks[t].key = k
       /\ \A t \in Tasks :
             (Looks(t) /\ tasks'[t].key \notin CacheKeys(completion_cache))
             => /\ ~tasks'[t].hit
                /\ authenticated =>
                      /\ tasks'[t].pc = "calling"
                      /\ Len(outbound') = Len(outbound) + 1
      ]_vars

\* Call 2 stored b in a cache of two entries; the cache was cleared; call 3
\* looked b up, missed, and went out to the service
C17_Witness ==
    /\ cache_max_size = 2
    /\ completion_cache = <<>>
    /\ ncalls = 3
    /\ Len(outbound) = 3
    /\ \E t, u \in Tasks :
          /\ tasks[u].pc = "done"
          /\ tasks[u].key = "b"
          /\ ~tasks[u].hit
          /\ tasks[u].resp.finish_reason = "stop"
          /\ tasks[u].resp.content = Content(2)
          /\ tasks[t].pc = "calling"
          /\ tasks[t].id = 3
          /\ tasks[t].key = "b"

\* A step in which some entry leaves the cache
Evicts ==
    \/ CacheKeys(completion_cache) \ CacheKeys(completion_cache') # {}
    \/ Len(completion_cache') < Len(completion_cache)

\* C18: lookups and insertions are atomic with respect to each other when
\* get_code_completion calls run concurrently: an eviction and the insert
\* it makes room for happen in one step, so no lookup finds the cache with
\* the eviction done and the insert missing, a lookup leaves the cache as
\* it is, and insertions of different keys by concurrent calls never take
\* the cache above cache_max_size.
C18_AtomicLookupAndInsert ==
    /\ [](Len(completion_cache) <= cache_max_size)
    /\ [][/\ Evicts =>
                \/ completion_cache' = <<>>
                \/ \E t \in Tasks :
                      /\ Stores(t)
                      /\ tasks[t].key \in CacheKeys(completion_cache')
                      /\ CacheGet(completion_cache', tasks[t].key)
                            = tasks'[t].resp
          /\ \A t \in Tasks :
                Looks(t) => completion_cache' = completion_cache
         ]_vars

\* Calls 2 and 3, for keys b and c, were with the service at the same time
\* while the cache of two entries held a; both stored, a and nothing else
\* was evicted
C18_Witness ==
    /\ cache_max_size = 2
    /\ ncalls = 3
    /\ Len(outbound) = 3
    /\ tasks[1].pc = "done" /\ tasks[2].pc = "done"
    /\ {tasks[1].key, tasks[2].key} = {"b", "c"}
    /\ \A t \in Tasks :
          /\ ~tasks[t].hit
          /\ tasks[t].resp.finish_reason = "stop"
    /\ CacheKeys(completion_cache) = {"b", "c"}
    /\ \A t \in Tasks :
          CacheGet(completion_cache, tasks[t].key) = tasks[t].resp

\* A step in which the caller of task t's finished call changes the
\* response it holds
ModifiesItsResponse(t) ==
    /\ tasks[t].pc = "done"
    /\ tasks'[t].pc = "done"
    /\ ncalls' = ncalls
    /\ tasks'[t].resp # tasks[t].resp

\* C19: the cache owns its entries and callers get copies: when a caller
\* modifies the response it received (content or created_at), the cache
\* holds what it held, so a later lookup of the key returns the same
\* response and the entry is fresh exactly when it was before.
C19_CallersGetCopies ==
    [][\A t \in Tasks :
        ModifiesItsResponse(t) =>
            /\ completion_cache' = completion_cache
            /\ \A k \in Keys :
                  CacheHit(completion_cache', k, clock)
                      <=> CacheHit(completion_cache, k, clock)
      ]_vars

\* C20: whenever the limiter is observed, and in particular at the moment
\* a wait_if_needed() call returns, after a sleep or not, every timestamp in
\* request_times is less than 60 seconds older than the current time.
C20_TimestampsInWindow ==
    [][Len(admissions') > Len(admissions) =>
          \A i \in 1..Len(request_times') :
              clock' - request_times'[i] < Window
      ]_vars

\* The timestamps of times that are less than 60 seconds old at instant n
Survivors(times, n) == SelectSeq(times, LAMBDA x : ~(n - x >= Window))

\* C21: every wait_if_needed() call that completes appends exactly one
\* timestamp to request_times, nothing else adds to it, and timestamps
\* leave it only by the purge of those at least 60 seconds old; so the list
\* never holds more timestamps than calls were admitted.
C21_OneAppendPerAdmission ==
    /\ [](Len(request_times) <= Len(admissions))
    /\ [][LET purged == Survivors(request_times, clock) IN
          IF Len(admissions') = Len(admissions) + 1
          THEN \E base \in {request_times, purged} :
                  /\ Len(request_times') = Len(base) + 1
                  /\ SubSeq(request_times', 1, Len(base)) = base
          ELSE /\ admissions' = admissions
               /\ request_times' \in {request_times, purged}
         ]_vars

\* Limit 1: the second call slept and appended once on waking; the third
\* call, later, purged both timestamps and appended its own
C21_Witness ==
    /\ requests_per_minute = 1
    /\ Len(admissions) = 3
    /\ admissions[2].waited
    /\ ~admissions[3].waited
    /\ admissions[3].seen = 0
    /\ Len(request_times) = 1
    /\ request_times[1] = admissions[3].now
    /\ admissions[3].now > admissions[2].at

\* Entry i of the cache is stale at the current time
StaleAt(i) == clock - completion_cache[i].resp.created_at >= StaleAfter

\* C22: a lookup that finds a stale entry (age >= 300 s) neither removes nor
\* modifies it: the entry stays in the cache, counting toward
\* cache_max_size, until a successful re-fetch of its key overwrites it, it
\* is evicted as the oldest entry, or the cache is cleared; a failed
\* re-fetch leaves it where it was.
C22_StaleEntryStays ==
    [][/\ \A t \in Tasks :
            /\ Looks(t) => completion_cache' = completion_cache
            /\ FailsNow(t) => completion_cache' = completion_cache
       /\ \A i \in CacheIdx(completion_cache) :
            StaleAt(i) =>
                \/ \E j \in CacheIdx(completion_cache') :
                      completion_cache'[j] = completion_cache[i]
                \/ completion_cache' = <<>>
                \/ \E t \in Tasks :
                      /\ Stores(t)
                      /\ \/ tasks[t].key = completion_cache[i].key
                         \/ /\ Len(completion_cache) >= cache_max_size
                            /\ OutlivedBy(completion_cache, i)
       /\ \A t \in Tasks :
            (Stores(t) /\ tasks[t].key \notin CacheKeys(completion_cache)) =>
                Len(completion_cache') =
                    IF Len(completion_cache) < cache_max_size
                    THEN Len(completion_cache) + 1
                    ELSE cache_max_size
      ]_vars

\* a was stored at 0; at t = 300 a call for a missed, went out and failed:
\* the entry of t = 0 is still the one in the cache
C22_Witness ==
    /\ clock >= StaleAfter
    /\ ncalls = 2
    /\ Len(outbound) = 2
    /\ outbound[2].at = StaleAfter
    /\ completion_cache =
          <<[key |-> "a", resp |-> AIResponse(Content(1), "stop", 0)]>>
    /\ \E t \in Tasks :
          /\ tasks[t].pc = "done"
          /\ tasks[t].key = "a"
          /\ ~tasks[t].hit
          /\ tasks[t].resp.finish_reason = "error"

\* C23: wait_if_needed() has no error outcome: whatever the limiter holds
\* and whatever limit is configured, requests_per_minute = 0 included, a
\* call returns or waits and never raises.
C23_NeverRaises ==
    \A t \in Tasks : tasks[t].pc # "raised"

\* C24: the timestamp wait_if_needed() appends is the time it read on
\* entry, also when it slept before returning: a call that waited w seconds
\* leaves a timestamp w seconds older than the moment of its admission, and
\* on waking it appends to the list as it stands, without purging or
\* counting again.
C24_AppendsEntryTime ==
    [][\A t \in Tasks :
        /\ (tasks[t].pc # "sleeping" /\ tasks'[t].pc = "sleeping") =>
              tasks'[t].now = clock
        /\ (tasks[t].pc = "sleeping" /\ tasks'[t].pc # "sleeping") =>
              /\ request_times' = Append(request_times, tasks[t].now)
              /\ Len(admissions') = Len(admissions) + 1
              /\ LET a == admissions'[Len(admissions')] IN
                    /\ a.waited
                    /\ a.at = clock
                    /\ a.now = tasks[t].now
                    /\ a.at - a.now >= WaitTime(a.now, a.oldest)
                    /\ a.at - a.now > 0
        /\ (/\ Len(admissions') = Len(admissions) + 1
            /\ ~admissions'[Len(admissions')].waited)
           => /\ admissions'[Len(admissions')].now = clock
              /\ request_times'[Len(request_times')] = clock
      ]_vars

\* Limit 2, three calls at t = 0: the third slept until 60 and appended 0;
\* the list holds three timestamps, all 60 seconds old
C24_Witness ==
    /\ requests_per_minute = 2
    /\ clock = Window
    /\ Len(admissions) = 3
    /\ admissions[3].waited
    /\ admissions[3].now = 0
    /\ admissions[3].at = Window
    /\ request_times = <<0, 0, 0>>

\* C25: with a limit M > 0, request_times never holds more than M + 1
\* timestamps, and right after the purge of every wait_if_needed() call (what
\* the call counted, and the list a sleeping call left behind) at most M.
C25_ListBounded ==
    requests_per_minute > 0 =>
        /\ Len(request_times) <= requests_per_minute + 1
        /\ \A i \in AdmissionIdx : admissions[i].seen <= requests_per_minute
        /\ \A t \in Tasks :
              tasks[t].pc = "sleeping" =>
                  /\ tasks[t].seen <= requests_per_minute
                  /\ Len(request_times) <= requests_per_minute

\* Limit 2, calls at 0, 30, 30 and 60: the third slept to 60 and left three
\* timestamps, the fourth purged down to two, slept to 90 and left three
C25_Witness ==
    /\ requests_per_minute = 2
    /\ request_times = <<30, 30, 60>>
    /\ Len(admissions) = 4
    /\ admissions[3].waited
    /\ admissions[4].seen = 2
    /\ admissions[4].waited

\* A step in which task t enters generate_completion or chat_completion
EntersService(t) ==
    /\ CanCall(t, ServiceCalls)
    /\ ncalls' = ncalls + 1
    /\ tasks'[t].op \in {"generate_completion", "chat_completion"}

\* C26: while the service is not authenticated, generate_completion and
\* chat_completion return a response with finish_reason "error" at once: no
\* rate-limiter slot is used (request_times unchanged), nothing is sent, and
\* conversation_history and the completion cache stay as they were.
C26_UnauthenticatedRefused ==
    [][\A t \in Tasks :
        (EntersService(t) /\ ~authenticated) =>
            /\ tasks'[t].pc = "done"
            /\ tasks'[t].resp.finish_reason = "error"
            /\ UNCHANGED <<request_times, lock, lock_waiters, admissions,
                           outbound, conversation_history, completion_cache>>
      ]_vars

\* Two calls on an unauthenticated service with a full window behind it, the
\* second a chat_completion: nothing was admitted, sent or recorded
C26_Witness ==
    /\ ~authenticated
    /\ ncalls = 2
    /\ request_times = Backlog
    /\ admissions = <<>>
    /\ outbound = <<>>
    /\ conversation_history = <<>>
    /\ tasks[1].pc = "done"
    /\ tasks[1].op = "chat_completion"
    /\ tasks[1].resp.finish_reason = "error"

\* Task u is in a get_code_completion for key that has missed and not yet
\* returned
InFlightFor(u, key) ==
    /\ tasks[u].op = "get_code_completion"
    /\ tasks[u].key = key
    /\ tasks[u].pc \in {"lock_wait", "sleeping", "calling"}

\* C27: two concurrent get_code_completion calls with the same key, both
\* started while the cache has no fresh entry for it, are not merged: the
\* second goes to the limiter as the first did, each gets an admission and
\* an outbound call of its own, and each stores its response when it
\* returns, so that the cache holds the response stored last.
C27_NoDeduplication ==
    /\ [](\A t, u \in Tasks :
            (/\ t # u
             /\ InFlightFor(t, tasks[u].key)
             /\ InFlightFor(u, tasks[t].key)
             /\ tasks[t].pc = "calling"
             /\ tasks[u].pc = "calling")
            => /\ tasks[t].id # tasks[u].id
               /\ Cardinality(AdmissionsOf(tasks[t].id)
                                \cup AdmissionsOf(tasks[u].id)) = 2
               /\ Cardinality(OutboundOf(tasks[t].id)
                                \cup OutboundOf(tasks[u].id)) = 2)
    /\ [][\A t, u \in Tasks :
            /\ (/\ Looks(t)
                /\ t # u
                /\ authenticated
                /\ InFlightFor(u, tasks'[t].key)
                /\ ~CacheHit(completion_cache, tasks'[t].key, clock))
               => /\ MissStep(t)
                  /\ tasks'[u] = tasks[u]
            /\ (Stores(t) /\ t # u /\ InFlightFor(u, tasks[t].key))
               => /\ CacheGet(completion_cache', tasks[t].key) = tasks'[t].resp
                  /\ tasks'[u] = tasks[u]
         ]_vars

\* Calls 1 and 2 for a started together at t = 0; call 2 stored at 0, call 1
\* at 60: two admissions, two outbound calls, and the cache holds the
\* response of call 1
C27_Witness ==
    /\ cache_max_size = 2
    /\ ncalls = 2
    /\ Len(admissions) = 2
    /\ Len(outbound) = 2
    /\ outbound[1].at = 0 /\ outbound[2].at = 0
    /\ tasks[1].pc = "done" /\ tasks[2].pc = "done"
    /\ tasks[1].key = "a" /\ tasks[2].key = "a"
    /\ tasks[1].resp = AIResponse(Content(1), "stop", Window)
    /\ tasks[2].resp = AIResponse(Content(2), "stop", 0)
    /\ completion_cache = <<[key |-> "a", resp |-> tasks[1].resp]>>

\* No chat_completion call is under way
ChatAtRest ==
    \A t \in Tasks :
        tasks[t].op = "chat_completion" => tasks[t].pc \in Resting

\* C28: after any sequence of chat_completion calls, whether the outbound
\* calls succeeded or failed, conversation_history holds at most 20 entries.
C28_HistoryBounded ==
    ChatAtRest => Len(conversation_history) <= HistoryMax

\* A step in which the keyless get_code_completion of task t returns from
\* the service
KeylessReturns(t) ==
    /\ tasks[t].pc = "calling"
    /\ tasks'[t].pc = "done"
    /\ tasks[t].op = "get_code_completion"
    /\ tasks[t].key = NoKey

C30_RecentFilesKept ==
    /\ \A i, j \in 1..Len(recent_files) :
          recent_files[i] = recent_files[j] => i = j
    /\ recent_added # <<>> =>
          /\ recent_files # <<>>
          /\ Head(recent_files) = Head(recent_added)
    /\ recent_files = FirstN(recent_added, RecentMax)

====
